---- MODULE Spec2Model ----
(***************************************************************************)
(* Model of spotifysaver's batch download orchestrator                     *)
(* (src/spotifysaver/downloader/youtube_downloader.py) and of its match    *)
(* scorer (src/spotifysaver/services/score_match_calculator.py).           *)
(*                                                                         *)
(* Spec is the orchestrator's *_cli entry points and download_track;       *)
(* LibrarySpec is download_album and download_playlist; ScorerSpec,        *)
(* TitleSpec, SanitizerSpec and PathSpec call one pure function on         *)
(* arguments drawn from bounded sets.                                      *)
(*                                                                         *)
(* Strings are sequences of one-character strings; a multi-character       *)
(* element such as "Unknown Artist" or "m4a" stands for a literal of the   *)
(* source that contains no character the sanitizer touches.                *)
(* External collaborators (searcher, yt-dlp, requests, MusicFileMetadata,  *)
(* LrclibAPI, NFOGenerator, the filesystem, the progress callback) are     *)
(* black boxes: each call's outcome is chosen nondeterministically.        *)
(***************************************************************************)
EXTENDS Integers, Sequences, FiniteSets, TLC

\* Longest track list of a collection.
MaxTracks == 2

\* Python's None / empty string (both falsy in the conditions modelled).
None == <<>>

----------------------------------------------------------------------------
(* _sanitize_filename *)

ForbiddenChars == {"<", ">", ":", "\"", "/", "\\", "|", "?", "*"}
DashChars == {"endash", "emdash"}
WhitespaceChars == {" ", "\t", "\n"}
StripChars == {".", " "}
SanitizeLimit == 200

ReplaceForbidden(s) ==
    [i \in 1..Len(s) |-> IF s[i] \in ForbiddenChars THEN "_" ELSE s[i]]

ReplaceDashes(s) ==
    [i \in 1..Len(s) |-> IF s[i] \in DashChars THEN "-" ELSE s[i]]

RECURSIVE DropLeading(_, _)
DropLeading(s, cs) ==
    IF s # <<>> /\ Head(s) \in cs THEN DropLeading(Tail(s), cs) ELSE s

RECURSIVE DropTrailing(_, _)
DropTrailing(s, cs) ==
    IF s # <<>> /\ s[Len(s)] \in cs
    THEN DropTrailing(SubSeq(s, 1, Len(s) - 1), cs)
    ELSE s

\* str.strip(chars)
Strip(s, cs) == DropTrailing(DropLeading(s, cs), cs)

\* re.sub(r"\s+", " ", s)
\* (the first character of a whitespace run becomes a space, the others go)
CollapseWhitespace(s) ==
    SelectSeq([i \in 1..Len(s) |->
                  IF s[i] \notin WhitespaceChars THEN s[i]
                  ELSE IF i > 1 /\ s[i - 1] \in WhitespaceChars THEN "dropped"
                  ELSE " "],
              LAMBDA c : c # "dropped")

Truncate(s) ==
    IF Len(s) > SanitizeLimit
    THEN Strip(SubSeq(s, 1, SanitizeLimit), WhitespaceChars)
    ELSE s

_sanitize_filename(filename) ==
    LET replaced  == ReplaceForbidden(filename)
        dashed    == ReplaceDashes(replaced)
        collapsed == CollapseWhitespace(dashed)
        trimmed   == Strip(collapsed, StripChars)
    IN  Truncate(trimmed)

----------------------------------------------------------------------------
(* Paths: a path is the sequence of its components, each a string. *)

base_dir == << <<"Music">> >>

Join(dir, component) == Append(dir, component)

\* The directory and all its ancestors (Path.mkdir(parents=True, exist_ok=True)).
Ancestors(dir) == {SubSeq(dir, 1, n) : n \in 1..Len(dir)}

\* Python's `x or default`
OrElse(x, default) == IF x # None THEN x ELSE default

Year(release_date) == SubSeq(release_date, 1, IF Len(release_date) < 4 THEN Len(release_date) ELSE 4)

\* `album_artist or track.artists[0] if track.artists else "Unknown Artist"`
\* parses as `(album_artist or track.artists[0]) if track.artists else ...`.
ArtistName(track, album_artist) ==
    IF track.artists # <<>>
    THEN OrElse(album_artist, track.artists[1])
    ELSE <<"Unknown Artist">>

OutputDir(track, album_artist) ==
    IF track.source_type = "playlist"
    THEN Join(base_dir,
              _sanitize_filename(OrElse(track.playlist_name, <<"Unknown Playlist">>)))
    ELSE Join(Join(base_dir, _sanitize_filename(ArtistName(track, album_artist))),
              _sanitize_filename(OrElse(track.album_name, <<"Unknown Album">>))
                \o <<" ", "(">>
                \o (IF track.release_date # None THEN Year(track.release_date)
                                                 ELSE <<"Unknown">>)
                \o <<")">>)

FileName(track, ext) ==
    _sanitize_filename(OrElse(track.name, <<"Unknown Track">>)) \o <<".", ext>>

_get_output_path(track, album_artist, ext) ==
    Join(OutputDir(track, album_artist), FileName(track, ext))

\* Path.with_suffix(".lrc") of a path whose name ends in ".<ext>"
LrcPath(audio_path) ==
    LET name == audio_path[Len(audio_path)]
    IN  Join(SubSeq(audio_path, 1, Len(audio_path) - 1),
             SubSeq(name, 1, Len(name) - 1) \o <<"lrc">>)

_get_album_dir(album) ==
    Join(Join(base_dir, album.artists[1]),
         album.name \o <<" ", "(">> \o Year(album.release_date) \o <<")">>)

----------------------------------------------------------------------------
(* Collaborator outcomes.  One record fixes what every collaborator does    *)
(* during one iteration of a batch loop (or one download_track call); a     *)
(* collaborator that is not reached has the outcome NA.                     *)

NA == "n/a"
Ext == "m4a"

Nothing == {}
Some(x) == {x}

Rec(CB, S1, MK, S, F, C, T, L) ==
    [cb : CB, search1 : S1, mkdir : MK, search : S, fetch : F, cover : C,
     tag : T, lyrics : L]

\* An iteration that ends before download_track is called.
NotReachedByTrack(CB, S1) == Rec(CB, S1, {NA}, {NA}, {NA}, {NA}, {NA}, {NA})

\* What download_track can meet, stage by stage: the directory cannot be
\* created; the searcher raises or finds nothing; the fetch fails, with or
\* without a partly written output file; the tag writer raises; all succeed.
\* The cover request yields bytes, nothing (no URL, status not 200) or raises;
\* the lyrics provider yields a text, nothing, an instrumental marker or raises.
ReachedByTrack(CB, S1, download_lyrics) ==
    LET covers == {"bytes", "none", "raise"}
        lyrics == IF download_lyrics
                  THEN {"text", "empty", "instrumental", "raise"} ELSE {NA}
    IN  Rec(CB, S1, {"raise"}, {NA}, {NA}, {NA}, {NA}, {NA})
        \cup Rec(CB, S1, {"ok"}, {"none", "raise"}, {NA}, {NA}, {NA}, {NA})
        \cup Rec(CB, S1, {"ok"}, {"url"}, {"partial", "raise"}, {NA}, {NA}, {NA})
        \cup Rec(CB, S1, {"ok"}, {"url"}, {"ok"}, covers, {"raise"}, {NA})
        \cup Rec(CB, S1, {"ok"}, {"url"}, {"ok"}, covers, {"ok"}, lyrics)

Event(op, i, arg) == [op |-> op, i |-> i, arg |-> arg]

----------------------------------------------------------------------------
(* download_track *)

\* Faulty variant: the except-branch returns without removing the output file.
KeepCorrupt(files, output_path) == files

\* except-branch: `if output_path.exists(): output_path.unlink()`
RemoveCorrupt(files, output_path) == files \ {output_path}

\* Faulty variant: the result of the search is not tested.
NoMatchIgnored(o) == FALSE

\* `if not yt_url:`
NoMatch(o) == o.search = "none"

\* Faulty variant: the request is made outside any try, so its exception
\* reaches download_track.
_download_cover_uncaught(o) ==
    [raised |-> o.cover = "raise",
     data |-> IF o.cover = "bytes" THEN Some("bytes") ELSE Nothing]

\* _download_cover: the request is inside a try; an exception is logged and
\* None is returned.
_download_cover(o) ==
    [raised |-> FALSE, data |-> IF o.cover = "bytes" THEN Some("bytes") ELSE Nothing]

\* Faulty variant: the "[instrumental]" marker is not tested, so the marker
\* text counts as lyrics.
LyricsSavedAnyText(o) ==
    [raised |-> FALSE, saved |-> o.lyrics \in {"text", "instrumental"}]

\* _save_lyrics: everything is inside a try; TRUE iff a non-empty .lrc file
\* was written.
LyricsSaved(o) ==
    [raised |-> FALSE, saved |-> o.lyrics = "text"]

_save_lyrics(files, audio_path, o) ==
    IF o.lyrics = "text" THEN files \cup {LrcPath(audio_path)} ELSE files

\* Track.with_lyrics_status
with_lyrics_status(track, flag) == [track EXCEPT !.has_lyrics = flag]

\* Result of one call: status "raised" when an exception leaves download_track,
\* otherwise the returned pair (path, track), each Nothing or Some(value).
TrackResult(status, path, track, d, f, ev) ==
    [status |-> status, path |-> path, track |-> track,
     dirs |-> d, files |-> f, ev |-> ev]

\* Lines 342-374, with the output path of line 340 as dir_path / file_name.
Pipeline(dir_path, file_name, track, download_lyrics, o, i, d, f) ==
    LET output_path == Join(dir_path, file_name)
        eMk    == <<Event("mkdir", i, <<>>)>>
        dMk    == d \cup Ancestors(dir_path)
        eSrch  == eMk \o <<Event("search", i, <<>>)>>
        eFetch == eSrch \o <<Event("fetch", i, <<>>)>>
        fFetch == IF o.fetch \in {"ok", "partial"} THEN f \cup {output_path} ELSE f
        cover  == _download_cover(o)
        eCover == eFetch \o <<Event("cover", i, <<>>)>>
        eTag   == eCover \o <<Event("tag", i, <<cover.data # Nothing>>)>>
        lyr    == LyricsSaved(o)
        eLyr   == IF download_lyrics
                  THEN eTag \o <<Event("lyrics", i, <<>>)>> ELSE eTag
        fLyr   == IF download_lyrics THEN _save_lyrics(fFetch, output_path, o)
                                     ELSE fFetch
        updated == IF download_lyrics
                   THEN with_lyrics_status(track, lyr.saved) ELSE track
        caught == \/ o.fetch # "ok"
                  \/ cover.raised
                  \/ o.tag # "ok"
                  \/ download_lyrics /\ lyr.raised
        eCaught == IF o.fetch # "ok" THEN eFetch
                   ELSE IF cover.raised THEN eCover
                   ELSE IF o.tag # "ok" THEN eTag
                   ELSE eLyr
    IN  IF o.mkdir = "raise" THEN
            TrackResult("raised", Nothing, Nothing, d, f, eMk)
        ELSE IF o.search = "raise" THEN
            TrackResult("raised", Nothing, Nothing, dMk, f, eSrch)
        ELSE IF NoMatch(o) THEN
            TrackResult("returned", Nothing, Nothing, dMk, f, eSrch)
        ELSE IF caught THEN
            TrackResult("returned", Nothing, Nothing, dMk,
                        RemoveCorrupt(fFetch, output_path), eCaught)
        ELSE
            TrackResult("returned", Some(output_path), Some(updated), dMk, fLyr, eLyr)

download_track(track, album_artist, download_lyrics, o, i, d, f) ==
    Pipeline(OutputDir(track, album_artist), FileName(track, Ext), track,
             download_lyrics, o, i, d, f)

----------------------------------------------------------------------------
(* Inputs: the collection handed to a batch entry point and its options. *)

CollNames == {None, <<"a">>, <<"b", ":">>}
TrackNames == {<<"s">>, <<"t", "?">>}
ArtistLists == {<< <<"r">> >>}
ReleaseDate == <<"2", "0", "2", "0", "-", "0", "1">>

\* Track lists up to MaxTracks long.  Which name comes first does not matter
\* to the orchestrator, so a list starts with FirstTrackName; a later track
\* repeats it (same output path) or has the other name.
FirstTrackName == <<"s">>

TrackLists ==
    {l \in UNION {[1..n -> TrackNames] : n \in 0..MaxTracks} :
        l = <<>> \/ l[1] = FirstTrackName}

Collections ==
    [name : CollNames, artists : ArtistLists, release_date : {ReleaseDate},
     cover_url : BOOLEAN, tracks : TrackLists]

Options == [nfo : BOOLEAN, cover : BOOLEAN, lyrics : BOOLEAN, cb : BOOLEAN]

\* The Track the catalog client builds for position i of a collection
\* (spotify_api.py: album tracks carry the album's name and release date,
\* playlist tracks the playlist's name).
TrackOf(c, source_type, i) ==
    [name |-> c.tracks[i], artists |-> c.artists, album_name |-> c.name,
     release_date |-> c.release_date, source_type |-> source_type,
     playlist_name |-> IF source_type = "playlist" THEN c.name ELSE None,
     has_lyrics |-> FALSE]

VARIABLES
    kind,      \* entry point called: "album", "playlist", "track", or a function
    coll,      \* the argument: an Album / Playlist, or a function's arguments
    opts,      \* nfo, cover, download_lyrics, progress_callback supplied
    pc,        \* "ready", "loop", "finish", "done" (returned), "raised"
    idx,       \* one-based index of the next track of the loop
    success,   \* the success counter
    result,    \* the returned tuple, <<>> before the return
    dirs,      \* directories that exist
    files,     \* files that exist
    calls,     \* collaborator calls of the latest step (loop iteration, entry
               \* or finish), in the order they were made
    outcomes,  \* per track: "path", "none" (returned no path) or "error" (caught)
    last       \* what the latest iteration met, and its download_track result

vars == <<kind, coll, opts, pc, idx, success, result, dirs, files, calls, outcomes, last>>

NoOutcome ==
    [cb |-> NA, search1 |-> NA, mkdir |-> NA, search |-> NA, fetch |-> NA,
     cover |-> NA, tag |-> NA, lyrics |-> NA]

NoLast == [o |-> NoOutcome, i |-> 0, called |-> FALSE, status |-> NA, path |-> Nothing, track |-> Nothing]

Init ==
    /\ kind \in {"album", "playlist", "track"}
    /\ coll \in Collections
    /\ opts \in Options
    /\ kind = "track" => /\ Len(coll.tracks) = 1
                         /\ ~opts.nfo /\ ~opts.cover /\ ~opts.cb /\ ~coll.cover_url
    /\ pc = "ready"
    /\ idx = 1
    /\ success = 0
    /\ result = <<>>
    /\ LET earlier == _get_output_path(TrackOf(coll, "single", 1), None, Ext)
       IN  \/ dirs = {base_dir} /\ files = {}
           \/ /\ kind = "track"
              /\ dirs = Ancestors(SubSeq(earlier, 1, Len(earlier) - 1))
              /\ files = {earlier}
    /\ calls = <<>>
    /\ outcomes = <<>>
    /\ last = NoLast

----------------------------------------------------------------------------
(* Loop bodies of download_album_cli and download_playlist_cli.  Each       *)
(* returns the filesystem after the iteration, the calls made, whether the  *)
(* success counter is incremented, and the track's terminal outcome.        *)

Iteration(d, f, ev, counted, outcome, called, status, path, track) ==
    [dirs |-> d, files |-> f, ev |-> ev, counted |-> counted, outcome |-> outcome,
     called |-> called, status |-> status, path |-> path, track |-> track]

\* An iteration whose exception is caught before download_track is called.
Skipped(d, f, ev) ==
    Iteration(d, f, ev, FALSE, "error", FALSE, NA, Nothing, Nothing)

\* Faulty variant: enumerate() without start=1 hands the callback a
\* zero-based index.
ProgressEventsZeroBased(c, i, cb) ==
    IF cb THEN <<Event("cb", i, <<i - 1, Len(c.tracks), c.tracks[i]>>)>> ELSE <<>>

\* progress_callback(idx, len(tracks), track.name), when one is supplied
ProgressEvents(c, i, cb) ==
    IF cb THEN <<Event("cb", i, <<i, Len(c.tracks), c.tracks[i]>>)>> ELSE <<>>

\* Faulty variant: every call that returns is counted, path or not.
AlbumCountsAnyReturn(r) == r.status = "returned"

\* `if audio_path: success += 1`
AlbumCounts(r) == r.status = "returned" /\ r.path # Nothing

\* `if updated_track: success += 1`
PlaylistCounts(r) == r.status = "returned" /\ r.track # Nothing

TrackOutcome(r) ==
    IF r.status = "raised" THEN "error"
    ELSE IF r.path # Nothing THEN "path" ELSE "none"

\* An iteration that called download_track, with result r.
Ran(prefix, r, counted) ==
    Iteration(r.dirs, r.files, prefix \o r.ev, counted, TrackOutcome(r), TRUE,
              r.status, r.path, r.track)

album_after_download(prefix, r) == Ran(prefix, r, AlbumCounts(r))

playlist_after_download(prefix, r) == Ran(prefix, r, PlaylistCounts(r))

album_loop_body(c, o, i, d, f, cb, download_lyrics) ==
    LET eCb == ProgressEvents(c, i, cb)
        eS1 == eCb \o <<Event("search", i, <<>>)>>
    IN  IF cb /\ o.cb = "raise" THEN Skipped(d, f, eCb)
        ELSE IF o.search1 # "url" THEN
            \* the searcher raised, or `raise ValueError("Not found ...")`
            Skipped(d, f, eS1)
        ELSE album_after_download(
                 eS1, download_track(TrackOf(c, "album", i), c.artists[1],
                                     download_lyrics, o, i, d, f))

playlist_loop_body(c, o, i, d, f, cb, download_lyrics) ==
    LET eCb == ProgressEvents(c, i, cb)
    IN  IF cb /\ o.cb = "raise" THEN Skipped(d, f, eCb)
        ELSE playlist_after_download(
                 eCb, download_track(TrackOf(c, "playlist", i), None,
                                     download_lyrics, o, i, d, f))

\* Outcome records of one iteration, by entry point and options.
AlbumOutcomes(cb, download_lyrics) ==
    (IF cb THEN NotReachedByTrack({"raise"}, {NA}) ELSE {})
    \cup NotReachedByTrack({IF cb THEN "ok" ELSE NA}, {"none", "raise"})
    \cup ReachedByTrack({IF cb THEN "ok" ELSE NA}, {"url"}, download_lyrics)

PlaylistOutcomes(cb, download_lyrics) ==
    (IF cb THEN NotReachedByTrack({"raise"}, {NA}) ELSE {})
    \cup ReachedByTrack({IF cb THEN "ok" ELSE NA}, {NA}, download_lyrics)

----------------------------------------------------------------------------
(* After the loop: collection-level side effects and the return. *)

\* Faulty variant: the guard lets a batch without any success through.
HasSuccessOrNone(n) == n >= 0

\* `if success > 0:`
HasSuccess(n) == n > 0

Finish(raised, f, ev) == [raised |-> raised, files |-> f, ev |-> ev]

\* _save_cover_album: the request and the write are inside its own try, so it
\* never raises; the file appears when the request succeeded and the
\* directory exists.
_save_cover_album(f, d, output_dir, oc) ==
    IF oc = "saved" /\ output_dir \in d
    THEN f \cup {Join(output_dir, <<"cover.jpg">>)} ELSE f

album_finish(c, n, nfo, cover, on, oc, d, f) ==
    LET output_dir == _get_album_dir(c)
        eNfo == IF nfo THEN <<Event("nfo", 0, <<output_dir>>)>> ELSE <<>>
        doCover == cover /\ c.cover_url
        eCov == IF doCover THEN <<Event("cover_album", 0, <<output_dir>>)>> ELSE <<>>
    IN  IF ~HasSuccess(n) THEN Finish(FALSE, f, <<>>)
        ELSE IF nfo /\ on = "raise" THEN Finish(TRUE, f, eNfo)
        ELSE Finish(FALSE,
                    IF doCover THEN _save_cover_album(f, d, output_dir, oc) ELSE f,
                    eNfo \o eCov)

\* download_playlist_cli takes no nfo option: a requested sidecar (nfo) and the
\* generator's outcome (on) are not read.
playlist_finish(c, n, nfo, cover, on, oc, d, f) ==
    LET output_dir == Join(base_dir, c.name)
        doCover == HasSuccess(n) /\ cover /\ c.cover_url
    IN  Finish(FALSE,
               IF doCover THEN _save_cover_album(f, d, output_dir, oc) ELSE f,
               IF doCover THEN <<Event("cover_album", 0, <<output_dir>>)>> ELSE <<>>)

----------------------------------------------------------------------------
(* Actions *)

\* What the batch layer itself met in an iteration (the callback and, for an
\* album, its own search); the rest is behind download_track's result.
BatchView(o) == [NoOutcome EXCEPT !.cb = o.cb, !.search1 = o.search1]

LastOf(o, i, it) ==
    [o |-> BatchView(o), i |-> i, called |-> it.called, status |-> it.status,
     path |-> it.path, track |-> it.track]

\* download_album_cli, lines 443-447
AlbumEnter ==
    /\ kind = "album" /\ pc = "ready"
    /\ IF coll.tracks = <<>>
       THEN pc' = "done" /\ result' = <<0, 0>>
       ELSE pc' = "loop" /\ result' = result
    /\ UNCHANGED <<kind, coll, opts, idx, success, dirs, files, calls, outcomes, last>>

\* download_album_cli, one iteration of lines 448-467
AlbumTrack ==
    /\ kind = "album" /\ pc = "loop"
    /\ \E o \in AlbumOutcomes(opts.cb, opts.lyrics) :
         \E it \in {album_loop_body(coll, o, idx, dirs, files, opts.cb, opts.lyrics)} :
             /\ dirs' = it.dirs
             /\ files' = it.files
             /\ calls' = it.ev
             /\ success' = IF it.counted THEN success + 1 ELSE success
             /\ outcomes' = Append(outcomes, it.outcome)
             /\ last' = LastOf(o, idx, it)
    /\ idx' = idx + 1
    /\ pc' = IF idx = Len(coll.tracks) THEN "finish" ELSE "loop"
    /\ UNCHANGED <<kind, coll, opts, result>>

\* download_album_cli, lines 469-480
AlbumFinish ==
    /\ kind = "album" /\ pc = "finish"
    /\ \E on \in {"ok", "raise"}, oc \in {"saved", "failed"} :
         \E fin \in {album_finish(coll, success, opts.nfo, opts.cover, on, oc,
                                   dirs, files)} :
             /\ files' = fin.files
             /\ calls' = fin.ev
             /\ pc' = IF fin.raised THEN "raised" ELSE "done"
             /\ result' = IF fin.raised THEN result ELSE <<success, Len(coll.tracks)>>
    /\ UNCHANGED <<kind, coll, opts, idx, success, dirs, outcomes, last>>

\* download_playlist_cli, lines 577-583
PlaylistEnter ==
    /\ kind = "playlist" /\ pc = "ready"
    /\ IF coll.name = None \/ coll.tracks = <<>>
       THEN /\ pc' = "done" /\ result' = <<0, 0>>
            /\ UNCHANGED <<dirs, calls>>
       ELSE \E om \in {"ok", "raise"} :
            /\ calls' = <<Event("mkdir", 0, <<Join(base_dir, coll.name)>>)>>
            /\ dirs' = IF om = "ok" THEN dirs \cup Ancestors(Join(base_dir, coll.name))
                                    ELSE dirs
            /\ pc' = IF om = "ok" THEN "loop" ELSE "raised"
            /\ result' = result
    /\ UNCHANGED <<kind, coll, opts, idx, success, files, outcomes, last>>

\* download_playlist_cli, one iteration of lines 585-600
PlaylistTrack ==
    /\ kind = "playlist" /\ pc = "loop"
    /\ \E o \in PlaylistOutcomes(opts.cb, opts.lyrics) :
         \E it \in {playlist_loop_body(coll, o, idx, dirs, files, opts.cb, opts.lyrics)} :
             /\ dirs' = it.dirs
             /\ files' = it.files
             /\ calls' = it.ev
             /\ success' = IF it.counted THEN success + 1 ELSE success
             /\ outcomes' = Append(outcomes, it.outcome)
             /\ last' = LastOf(o, idx, it)
    /\ idx' = idx + 1
    /\ pc' = IF idx = Len(coll.tracks) THEN "finish" ELSE "loop"
    /\ UNCHANGED <<kind, coll, opts, result>>

\* download_playlist_cli, lines 602-608
PlaylistFinish ==
    /\ kind = "playlist" /\ pc = "finish"
    /\ \E oc \in {"saved", "failed"} :
         \E fin \in {playlist_finish(coll, success, opts.nfo, opts.cover, "ok", oc,
                                      dirs, files)} :
             /\ files' = fin.files
             /\ calls' = fin.ev
             /\ pc' = IF fin.raised THEN "raised" ELSE "done"
             /\ result' = IF fin.raised THEN result ELSE <<success, Len(coll.tracks)>>
    /\ UNCHANGED <<kind, coll, opts, idx, success, dirs, outcomes, last>>

\* download_track called on its own (a single track, no album_artist)
DirectTrack ==
    /\ kind = "track" /\ pc = "ready"
    /\ \E o \in PlaylistOutcomes(FALSE, opts.lyrics) :
         \E r \in {download_track(TrackOf(coll, "single", 1), None, opts.lyrics, o, 1,
                                   dirs, files)} :
             /\ dirs' = r.dirs
             /\ files' = r.files
             /\ calls' = r.ev
             /\ outcomes' = Append(outcomes, TrackOutcome(r))
             /\ last' = [o |-> o, i |-> 1, called |-> TRUE, status |-> r.status,
                         path |-> r.path, track |-> r.track]
             /\ pc' = IF r.status = "raised" THEN "raised" ELSE "done"
    /\ UNCHANGED <<kind, coll, opts, idx, success, result>>

Next ==
    \/ AlbumEnter
    \/ AlbumTrack
    \/ AlbumFinish
    \/ PlaylistEnter
    \/ PlaylistTrack
    \/ PlaylistFinish
    \/ DirectTrack

Spec == Init /\ [][Next]_vars

----------------------------------------------------------------------------
(* Vocabulary of the properties *)

Batch == kind \in {"album", "playlist"}

Called(op) == \E k \in 1..Len(calls) : calls[k].op = op

CountCalls(op) == Cardinality({k \in 1..Len(calls) : calls[k].op = op})

CountOutcome(x) == Cardinality({k \in 1..Len(outcomes) : outcomes[k] = x})

\* The state right after iteration last.i of a batch loop.
AfterIteration == Batch /\ pc \in {"loop", "finish"} /\ last.i >= 1

\* The batch went through its loop and left the entry point.
Finished == Batch /\ pc \in {"done", "raised"} /\ coll.tracks # <<>>
            /\ Len(outcomes) = Len(coll.tracks)

\* Output path of track i of the batch, as the entry point asks for it.
IterationPath(i) ==
    _get_output_path(TrackOf(coll, kind, i),
                     IF kind = "album" THEN coll.artists[1] ELSE None, Ext)

DirectPath == _get_output_path(TrackOf(coll, "single", 1), None, Ext)

IsCoverFile(f) == f[Len(f)] = <<"cover.jpg">>

----------------------------------------------------------------------------
(* Batch orchestrator *)

\* C1: a batch over a non-empty track list runs one iteration per track, in
\* stored order, whatever the earlier tracks' outcomes were; unless the
\* progress callback raised, the iteration starts the track's acquisition; the
\* counter equals the number of tracks whose acquisition returned a path, and
\* the call returns (that number, number of tracks).
C1_CountsEveryTrack ==
    Batch /\ coll.tracks # <<>> =>
        /\ pc \in {"loop", "finish"} =>
              /\ Len(outcomes) = idx - 1
              /\ last.i = idx - 1
              /\ idx - 1 <= Len(coll.tracks)
              /\ (pc = "finish") <=> (idx - 1 = Len(coll.tracks))
              /\ success = CountOutcome("path")
        /\ AfterIteration =>
              /\ \A k \in 1..Len(calls) : calls[k].i = last.i
              /\ last.o.cb # "raise" => Called("search") \/ Called("mkdir")
        /\ pc = "done" /\ outcomes # <<>> =>
              /\ Len(outcomes) = Len(coll.tracks)
              /\ result = <<CountOutcome("path"), Len(coll.tracks)>>

\* C1 witness: a two-track batch returned (1, 2) although its first track failed.
C1_Witness ==
    /\ Batch /\ pc = "done" /\ Len(coll.tracks) = 2
    /\ outcomes = <<"none", "path">>
    /\ result = <<1, 2>>

\* C2: a batch entry point never ends by raising, whichever collaborator fails.
C2_NeverRaises == Batch => pc # "raised"

\* C3: when no track of the batch returned a path, the entry point returns
\* (0, N) and neither the sidecar generator nor the collection cover fetch is
\* called, whatever the nfo and cover options are.
C3_NoSuccessNoSideEffects ==
    Finished /\ CountOutcome("path") = 0 =>
        /\ pc = "done"
        /\ result = <<0, Len(coll.tracks)>>
        /\ ~Called("nfo") /\ ~Called("cover_album")
        /\ \A f \in files : ~IsCoverFile(f)

\* C3 witness: both options set, a cover URL present, every track failed.
C3_Witness ==
    /\ Finished /\ Len(coll.tracks) = 2 /\ CountOutcome("path") = 0
    /\ opts.nfo /\ opts.cover /\ coll.cover_url

\* C4: when at least one track succeeded and a sidecar document is requested,
\* the sidecar generator is called exactly once per run, after every track has
\* reached its terminal outcome, for albums and playlists alike.
C4_SidecarOnce ==
    /\ Batch /\ pc \in {"loop", "finish"} => ~Called("nfo")
    /\ Finished /\ CountOutcome("path") > 0 /\ opts.nfo => CountCalls("nfo") = 1

\* C5: a collection with an empty name or an empty track list makes the batch
\* entry point return (0, 0) at once: no callback, no resolver query, no
\* fetch, nothing created on the filesystem.
C5_InvalidCollectionNoEffects ==
    Batch /\ (coll.name = None \/ coll.tracks = <<>>) /\ pc # "ready" =>
        /\ pc = "done"
        /\ result = <<0, 0>>
        /\ calls = <<>> /\ outcomes = <<>>
        /\ dirs = {base_dir} /\ files = {}

\* C6: with a progress callback supplied, each iteration calls it exactly once,
\* with (i, total, track name), before any other call of the iteration, and
\* iteration i runs when exactly the tracks before i have a terminal outcome.
C6_ProgressOncePerTrack ==
    AfterIteration =>
        /\ last.i = Len(outcomes)
        /\ CountCalls("cb") = IF opts.cb THEN 1 ELSE 0
        /\ opts.cb =>
              /\ calls[1] = Event("cb", last.i,
                                  <<last.i, Len(coll.tracks), coll.tracks[last.i]>>)
              /\ \A k \in 1..Len(calls) : calls[k].i = last.i

\* C6 witness: the callback was called for the second track after the first
\* one had succeeded, and the second track's acquisition followed it.
C6_Witness ==
    /\ AfterIteration /\ opts.cb /\ last.i = 2
    /\ outcomes[1] = "path"
    /\ Len(calls) > 1 /\ calls[1].op = "cb" /\ calls[2].op \in {"search", "mkdir"}

\* C7: when the progress callback raises for a track, that track is acquired
\* all the same.
C7_CallbackIsolated ==
    AfterIteration /\ last.o.cb = "raise" =>
        last.called \/ Called("search")

----------------------------------------------------------------------------
(* Acquisition pipeline (download_track) *)

\* C8: when the fetch or the tag writer raises, download_track returns
\* (None, None) without raising and no file is left at the output path.
C8_FailedDownloadLeavesNoFile ==
    /\ kind = "track" /\ (last.o.fetch \in {"partial", "raise"} \/ last.o.tag = "raise") =>
          /\ pc = "done" /\ last.status = "returned"
          /\ last.path = Nothing /\ last.track = Nothing
          /\ DirectPath \notin files
    /\ AfterIteration /\ last.called /\ Called("fetch") /\ last.path = Nothing =>
          /\ last.status = "returned" /\ last.track = Nothing
          /\ IterationPath(last.i) \notin files

\* C8 witness: the fetch raised after it had written part of the output file.
C8_Witness ==
    kind = "track" /\ pc = "done" /\ last.o.fetch = "partial" /\ Called("fetch")

\* C9: when the searcher finds no candidate, download_track returns
\* (None, None) without raising and calls neither the fetch, the cover
\* download, the tag writer nor the lyrics provider.
C9_NoMatchSkipsPipeline ==
    kind = "track" /\ last.o.search = "none" =>
        /\ pc = "done" /\ last.status = "returned"
        /\ last.path = Nothing /\ last.track = Nothing
        /\ \A k \in 1..Len(calls) :
               calls[k].op \notin {"fetch", "cover", "tag", "lyrics"}

\* C9 witness: a direct call whose search found nothing, lyrics requested.
C9_Witness ==
    kind = "track" /\ pc = "done" /\ last.o.search = "none" /\ opts.lyrics
    /\ Called("search")

\* C10: when fetch and tagging succeed, download_track returns the output
\* path and a track whatever the cover download and the lyrics step did; with
\* no cover bytes the tags are written without cover.
C10_BestEffortNeverFatal ==
    kind = "track" /\ last.o.fetch = "ok" /\ last.o.tag = "ok" =>
        /\ pc = "done" /\ last.status = "returned"
        /\ last.path = Some(DirectPath) /\ last.track # Nothing
        /\ DirectPath \in files
        /\ \A k \in 1..Len(calls) :
               calls[k].op = "tag" => calls[k].arg = <<last.o.cover = "bytes">>

\* C10 witness: the cover request and the lyrics provider both raised and the
\* call still returned a path.
C10_Witness ==
    /\ kind = "track" /\ pc = "done"
    /\ last.o.cover = "raise" /\ last.o.lyrics = "raise"
    /\ last.path # Nothing

\* Directory in which the batch places its track files.
TrackDir == SubSeq(IterationPath(1), 1, Len(IterationPath(1)) - 1)

\* C21: the directory handed to the sidecar generator and to the collection
\* cover is the directory that holds the batch's track files, whatever the
\* collection's name.
C21_SidecarsBesideAudio ==
    Finished /\ coll.name # None =>
        \A k \in 1..Len(calls) :
            calls[k].op \in {"nfo", "cover_album"} => calls[k].arg = <<TrackDir>>

\* C22: download_track asks the searcher before it computes the output path
\* and creates its directory; when the searcher finds nothing, no directory
\* is created.
C22_ResolveBeforePath ==
    kind = "track" /\ pc \in {"done", "raised"} =>
        /\ \A k \in 1..Len(calls) :
              calls[k].op = "mkdir" => \E j \in 1..(k - 1) : calls[j].op = "search"
        /\ last.o.search = "none" =>
              /\ ~Called("mkdir")
              /\ files = {} => dirs = {base_dir}

\* C25: a successful download_track with lyrics requested returns a track
\* whose has_lyrics is true exactly when the .lrc file was written beside the
\* audio file; an empty text or an "[instrumental]" text writes none and
\* gives false; without the request the provider is not called and the track
\* is returned as it was given.
C25_LyricsFlag ==
    kind = "track" /\ pc = "done" /\ last.path # Nothing =>
        /\ last.path = Some(DirectPath)
        /\ \A t \in last.track :
              IF opts.lyrics
              THEN /\ Called("lyrics")
                   /\ t.has_lyrics <=> LrcPath(DirectPath) \in files
                   /\ t.has_lyrics <=> last.o.lyrics = "text"
                   /\ [t EXCEPT !.has_lyrics = FALSE] = TrackOf(coll, "single", 1)
              ELSE /\ ~Called("lyrics")
                   /\ LrcPath(DirectPath) \notin files
                   /\ t = TrackOf(coll, "single", 1)
        /\ last.track # Nothing

\* C25 witness: the provider answered with an "[instrumental]" text; the
\* download succeeded, no .lrc file was written and the flag is false.
C25_Witness ==
    /\ kind = "track" /\ pc = "done" /\ opts.lyrics
    /\ last.o.lyrics = "instrumental"
    /\ last.path = Some(DirectPath)
    /\ DirectPath \in files
    /\ LrcPath(DirectPath) \notin files
    /\ \A t \in last.track : ~t.has_lyrics

\* C27: when a batch returns, the audio file of every track counted as a
\* success is at its output path.
C27_SuccessesKeepTheirFile ==
    Finished /\ pc = "done" =>
        \A i \in 1..Len(outcomes) : outcomes[i] = "path" => IterationPath(i) \in files

\* C28: in one iteration of a batch loop the searcher is asked at most once,
\* and exactly once when download_track returned.
C28_OneSearchPerTrack ==
    AfterIteration =>
        /\ CountCalls("search") <= 1
        /\ last.called /\ last.status = "returned" => CountCalls("search") = 1

----------------------------------------------------------------------------
(* Match scorer (src/spotifysaver/services/score_match_calculator.py).      *)
(* A score is an exact rational <<numerator, denominator>> in lowest terms; *)
(* Python values are tagged records, so that a missing key, None and a      *)
(* value of an unexpected type can all be told apart.                       *)

RECURSIVE GCD(_, _)
GCD(a, b) == IF b = 0 THEN a ELSE GCD(b, a % b)

Abs(n) == IF n < 0 THEN 0 - n ELSE n

Q(n, d) == <<n \div GCD(Abs(n), d), d \div GCD(Abs(n), d)>>

Zero == <<0, 1>>
Plus(x, y) == Q(x[1] * y[2] + y[1] * x[2], x[2] * y[2])
Times(x, y) == Q(x[1] * y[1], x[2] * y[2])
Less(x, y) == x[1] * y[2] < y[1] * x[2]
Leq(x, y) == x[1] * y[2] <= y[1] * x[2]
MinQ(x, y) == IF Leq(x, y) THEN x ELSE y
MaxQ(x, y) == IF Leq(x, y) THEN y ELSE x

\* round(x, 3)
Round3(x) == Q((2000 * x[1] + x[2]) \div (2 * x[2]), 1000)

Absent == [tag |-> "absent"]
PyNone == [tag |-> "None"]
PyInt(n) == [tag |-> "int", v |-> n]
PyStr(s) == [tag |-> "str", v |-> s]
PyList(l) == [tag |-> "list", v |-> l]
\* a dict of an artist or an album: only its "name" entry is read
PyDict(name) == [tag |-> "dict", name |-> name]

\* dict.get(key, default)
Get(field, default) == IF field.tag = "absent" THEN default ELSE field

\* What a helper hands back: a value, or an exception raised on the way.
Value(x) == [raised |-> FALSE, v |-> x]
Raised == [raised |-> TRUE, v |-> Zero]

ToLower ==
    [c \in {"A", "B", "I", "O", "V", "X"} |->
        CASE c = "A" -> "a" [] c = "B" -> "b" [] c = "I" -> "i"
          [] c = "O" -> "o" [] c = "V" -> "v" [] c = "X" -> "x"]

\* str.lower()
Lower(s) == [i \in 1..Len(s) |-> IF s[i] \in DOMAIN ToLower THEN ToLower[s[i]] ELSE s[i]]

\* str.replace(word, "")
RECURSIVE Remove(_, _)
Remove(s, word) ==
    IF Len(s) < Len(word) THEN s
    ELSE IF SubSeq(s, 1, Len(word)) = word
         THEN Remove(SubSeq(s, Len(word) + 1, Len(s)), word)
         ELSE <<Head(s)>> \o Remove(Tail(s), word)

\* str.translate(str.maketrans("", "", "()[]-"))
DeletedChars == {"(", ")", "[", "]", "-"}
Delete(s) == SelectSeq(s, LAMBDA c : c \notin DeletedChars)

\* the first word of a string that starts with a non-whitespace character
RECURSIVE FirstWord(_)
FirstWord(s) ==
    IF s = <<>> \/ Head(s) \in WhitespaceChars THEN <<>>
    ELSE <<Head(s)>> \o FirstWord(Tail(s))

\* str.split()
RECURSIVE Split(_)
Split(s) ==
    IF DropLeading(s, WhitespaceChars) = <<>> THEN <<>>
    ELSE <<FirstWord(DropLeading(s, WhitespaceChars))>>
         \o Split(SubSeq(DropLeading(s, WhitespaceChars),
                         Len(FirstWord(DropLeading(s, WhitespaceChars))) + 1,
                         Len(DropLeading(s, WhitespaceChars))))

\* " ".join(words)
RECURSIVE JoinWords(_)
JoinWords(words) ==
    IF words = <<>> THEN <<>>
    ELSE IF Len(words) = 1 THEN words[1]
    ELSE words[1] \o <<" ">> \o JoinWords(Tail(words))

Official == <<"o", "f", "f", "i", "c", "i", "a", "l">>
Video == <<"v", "i", "d", "e", "o">>
DroppedWords == {<<"l", "y", "r", "i", "c", "s">>, <<"a", "u", "d", "i", "o">>}

_normalize(text) ==
    JoinWords(SelectSeq(Split(Delete(Remove(Remove(Lower(text), Official), Video))),
                        LAMBDA w : w \notin DroppedWords))

\* difflib.SequenceMatcher without junk: length of the common run of a from i
\* and b from j inside a[..ahi], b[..bhi]
RECURSIVE RunLength(_, _, _, _, _, _)
RunLength(a, b, i, j, ahi, bhi) ==
    IF i <= ahi /\ j <= bhi /\ a[i] = b[j]
    THEN 1 + RunLength(a, b, i + 1, j + 1, ahi, bhi)
    ELSE 0

\* find_longest_match: the longest block, the one starting earliest in a and,
\* of those, earliest in b; <<i, j, 0>> when nothing matches.
LongestIn(blocks) ==
    CHOOSE m \in blocks :
        \A n \in blocks :
            \/ m[3] > n[3]
            \/ m[3] = n[3] /\ m[1] < n[1]
            \/ m[3] = n[3] /\ m[1] = n[1] /\ m[2] <= n[2]

find_longest_match(a, b, alo, ahi, blo, bhi) ==
    LongestIn({<<alo, blo, 0>>} \cup
              {<<i, j, RunLength(a, b, i, j, ahi, bhi)>> : i \in alo..ahi, j \in blo..bhi})

\* get_matching_blocks: total size of the blocks found by recursing to the
\* left and to the right of the longest one
RECURSIVE MatchSize(_, _, _, _, _, _)
BlocksAround(a, b, alo, ahi, blo, bhi, m) ==
    IF m[3] = 0 THEN 0
    ELSE m[3] + MatchSize(a, b, alo, m[1] - 1, blo, m[2] - 1)
              + MatchSize(a, b, m[1] + m[3], ahi, m[2] + m[3], bhi)

MatchSize(a, b, alo, ahi, blo, bhi) ==
    IF alo > ahi \/ blo > bhi THEN 0
    ELSE BlocksAround(a, b, alo, ahi, blo, bhi,
                      find_longest_match(a, b, alo, ahi, blo, bhi))

\* SequenceMatcher(None, a, b).ratio()
_similar(a, b) ==
    IF Len(a) + Len(b) = 0 THEN Q(1, 1)
    ELSE Q(2 * MatchSize(a, b, 1, Len(a), 1, Len(b)), Len(a) + Len(b))

Range(seq) == {seq[i] : i \in 1..Len(seq)}

\* Faulty variant: the decay term is not floored at zero.
_score_duration_unfloored(yt_duration, sp_duration) ==
    IF Abs(yt_duration - sp_duration) <= 2 THEN Q(1, 1)
    ELSE Times(Q(5 - Abs(yt_duration - sp_duration), 5), Q(3, 10))

_score_duration(yt_duration, sp_duration) ==
    IF Abs(yt_duration - sp_duration) <= 2 THEN Q(1, 1)
    ELSE Times(MaxQ(Zero, Q(5 - Abs(yt_duration - sp_duration), 5)), Q(3, 10))

\* Faulty variant: the decay is not multiplied by the weight 0.3.
DurationScoreUnweighted(field, sp_duration) ==
    IF field.tag # "int" THEN Raised
    ELSE IF Abs(field.v - sp_duration) <= 2 THEN Value(Q(1, 1))
    ELSE Value(MaxQ(Zero, Q(5 - Abs(field.v - sp_duration), 5)))

\* the duration step of the scorers: abs() of a non-number raises TypeError
DurationScore(field, sp_duration) ==
    IF field.tag = "int" THEN Value(_score_duration(field.v, sp_duration)) ELSE Raised

Dicts(entries) == {e \in Range(entries) : e.tag = "dict"}

\* Faulty variant: the overlap is not divided by the number of catalog artists.
ArtistScoreUndivided(yt_artists, sp_artists_set, main_match) ==
    Plus(Times(Q(Cardinality(yt_artists \cap sp_artists_set), 1), Q(3, 10)),
         IF main_match THEN Q(1, 10) ELSE Zero)

ArtistScore(yt_artists, sp_artists_set, main_match) ==
    Plus(Times(Q(Cardinality(yt_artists \cap sp_artists_set),
                 IF sp_artists_set = {} THEN 1 ELSE Cardinality(sp_artists_set)),
               Q(3, 10)),
         IF main_match THEN Q(1, 10) ELSE Zero)

\* Raises on a candidate artist list that is not iterable, on an artist dict
\* without a string "name", and on sp_artists[0] of an empty list.
_score_artist_overlap(yt_artists_raw, sp_artists) ==
    IF yt_artists_raw.tag # "list" THEN Raised
    ELSE IF \E e \in Dicts(yt_artists_raw.v) : e.name.tag # "str" THEN Raised
    ELSE IF sp_artists = <<>> THEN Raised
    ELSE Value(ArtistScore({Lower(e.name.v) : e \in Dicts(yt_artists_raw.v)},
                           {Lower(a) : a \in Range(sp_artists)},
                           Lower(sp_artists[1]) \in
                               {Lower(e.name.v) : e \in Dicts(yt_artists_raw.v)}))

TitleScore(norm_yt, norm_sp) ==
    Times(IF Less(Q(Cardinality(Range(Split(norm_yt)) \cap Range(Split(norm_sp))),
                    IF Split(norm_sp) = <<>> THEN 1
                    ELSE Cardinality(Range(Split(norm_sp)))),
                  Q(3, 10))
          THEN Times(_similar(norm_yt, norm_sp), Q(1, 2))
          ELSE _similar(norm_yt, norm_sp),
          Q(3, 10))

\* Raises when the candidate's title is not a string.
_score_title_similarity(yt_title, sp_title) ==
    IF yt_title.tag # "str" THEN Raised
    ELSE Value(TitleScore(_normalize(yt_title.v), _normalize(sp_title)))

\* `needle in haystack` of two strings
Contains(haystack, needle) ==
    \E k \in 0..(Len(haystack) - Len(needle)) :
        SubSeq(haystack, k + 1, k + Len(needle)) = needle

\* Raises when the album dict's "name" is None.
_score_album_bonus(album_data, sp_album) ==
    IF album_data.tag \in {"absent", "None"} \/ sp_album = None THEN Value(Zero)
    ELSE IF album_data.tag = "str" /\ album_data.v = None THEN Value(Zero)
    ELSE IF album_data.tag = "dict" /\ album_data.name.tag = "None" THEN Raised
    ELSE Value(IF Contains(IF album_data.tag = "str" THEN Lower(album_data.v)
                           ELSE Lower(Get(album_data.name, PyStr(None)).v),
                           Lower(sp_album))
               THEN Q(1, 10) ELSE Zero)

\* Faulty variant: the duration score is left out of the total.
SumWithoutDuration(d, a, t, b) == Plus(Plus(a, t), b)

Sum(d, a, t, b) == Plus(Plus(Plus(d, a), t), b)

\* Faulty variant: the total is not capped when the title does not match.
CapLowTitleMissing(total_score, title_score) == total_score

\* `if title_score < 0.1: total_score = min(total_score, 0.5)`
CapLowTitle(total_score, title_score) ==
    IF Less(title_score, Q(1, 10)) THEN MinQ(total_score, Q(1, 2)) ELSE total_score

Threshold(strict) == IF strict THEN Q(7, 10) ELSE Q(6, 10)

\* Faulty variant: the strict threshold is applied to every call.
DecideStrictOnly(total_score, strict) ==
    IF Leq(Q(7, 10), total_score) THEN total_score ELSE Zero

\* `return total_score if total_score >= threshold else 0`
Decide(total_score, strict) ==
    IF Leq(Threshold(strict), total_score) THEN total_score ELSE Zero

AnyRaised(d, a, t, b) == d.raised \/ a.raised \/ t.raised \/ b.raised

\* Faulty variant: the exception leaves the scorer.
ExceptUncaught == [raised |-> TRUE, v |-> Zero, logged |-> FALSE]

\* `except Exception: ... return 0`
Except == [raised |-> FALSE, v |-> Zero, logged |-> FALSE]

\* Faulty variant: the total is clamped to 1.
ScoredClamped(d, a, t, b, total_score, strict) ==
    [raised |-> FALSE, v |-> Decide(MinQ(total_score, Q(1, 1)), strict), logged |-> TRUE,
     duration_score |-> d, artist_score |-> a, title_score |-> t,
     album_bonus |-> b, total_score |-> MinQ(total_score, Q(1, 1))]

\* The try block run to its end: the returned value and the logged breakdown.
Scored(d, a, t, b, total_score, strict) ==
    [raised |-> FALSE, v |-> Decide(total_score, strict), logged |-> TRUE,
     duration_score |-> d, artist_score |-> a, title_score |-> t,
     album_bonus |-> b, total_score |-> total_score]

ScoreOf(d, a, t, b, strict) ==
    IF AnyRaised(d, a, t, b) THEN Except
    ELSE Scored(d.v, a.v, t.v, b.v, CapLowTitle(Sum(d.v, a.v, t.v, b.v), t.v), strict)

_calculate_match_score(yt_result, track, strict) ==
    ScoreOf(DurationScore(Get(yt_result.duration_seconds, PyInt(0)), track.duration),
            _score_artist_overlap(Get(yt_result.artists, PyList(<<>>)), track.artists),
            _score_title_similarity(Get(yt_result.title, PyStr(None)), track.name),
            _score_album_bonus(yt_result.album, track.album_name),
            strict)

Explained(d, a, t, b, total_score, strict) ==
    [error |-> FALSE,
     duration_score |-> Round3(d), artist_score |-> Round3(a),
     title_score |-> Round3(t), album_bonus |-> Round3(b),
     total_score |-> Round3(total_score), threshold |-> Threshold(strict),
     passed |-> Leq(Threshold(strict), total_score)]

ExplainOf(d, a, t, b, strict) ==
    IF AnyRaised(d, a, t, b) THEN [error |-> TRUE]
    ELSE Explained(d.v, a.v, t.v, b.v, Sum(d.v, a.v, t.v, b.v), strict)

explain_score(yt_result, track, strict) ==
    ExplainOf(DurationScore(Get(yt_result.duration_seconds, PyInt(0)), track.duration),
              _score_artist_overlap(Get(yt_result.artists, PyList(<<>>)), track.artists),
              _score_title_similarity(Get(yt_result.title, PyStr(None)), track.name),
              _score_album_bonus(yt_result.album, track.album_name),
              strict)

----------------------------------------------------------------------------
(* Inputs of the scorer *)

\* Largest difference, in seconds, between a candidate's and the track's duration.
MaxDiff == 6

Imagine == <<"I", "m", "a", "g", "i", "n", "e">>

CandidateDurations ==
    {PyInt(180 + k) : k \in 0..MaxDiff} \cup {PyInt(177), Absent, PyNone}

CandidateArtists ==
    {Absent, PyNone,
     PyList(<< PyDict(PyStr(<<"A">>)) >>),
     PyList(<< PyDict(PyStr(<<"a">>)), PyDict(PyStr(<<"b">>)) >>),
     PyList(<< PyStr(<<"a">>), PyDict(PyStr(<<"b">>)) >>),
     PyList(<< PyDict(Absent) >>)}

CandidateTitles ==
    {PyStr(Imagine),
     PyStr(Imagine \o <<" ", "(", "O", "f", "f", "i", "c", "i", "a", "l", " ",
                        "V", "i", "d", "e", "o", ")">>),
     PyStr(Imagine \o <<"X">>),
     PyStr(<<"X">>),
     Absent, PyNone}

CandidateAlbums ==
    {Absent, PyDict(PyStr(<<"X", " ", "B">>)), PyStr(<<"b">>), PyDict(PyNone)}

Candidates ==
    [duration_seconds : CandidateDurations, artists : CandidateArtists,
     title : CandidateTitles, album : CandidateAlbums]

\* Track as built by the catalog client; the duration is in whole seconds.
ScoredTracks ==
    [name : {Imagine}, duration : {180},
     artists : {<<>>, << <<"a">> >>, << <<"a">>, <<"b">> >>},
     album_name : {None, <<"x">>}]

----------------------------------------------------------------------------
(* The scorer's two entry points, each called once on an argument triple.   *)
(* kind names the entry point, coll holds the candidate and the track, opts *)
(* the strict flag, result the returned value and last the logged           *)
(* breakdown; the filesystem is not touched.                                *)

Idle ==
    /\ pc = "ready"
    /\ idx = 1
    /\ success = 0
    /\ result = <<>>
    /\ dirs = {base_dir}
    /\ files = {}
    /\ calls = <<>>
    /\ outcomes = <<>>
    /\ last = NoLast

ScorerInit ==
    /\ kind \in {"score", "explain"}
    /\ coll \in [candidate : Candidates, track : ScoredTracks]
    /\ opts \in [strict : BOOLEAN]
    /\ Idle

Score ==
    /\ kind = "score"
    /\ pc = "ready"
    /\ \E r \in {_calculate_match_score(coll.candidate, coll.track, opts.strict)} :
          /\ pc' = IF r.raised THEN "raised" ELSE "done"
          /\ result' = IF r.raised THEN <<>> ELSE <<r.v>>
          /\ last' = r
    /\ UNCHANGED <<kind, coll, opts, idx, success, dirs, files, calls, outcomes>>

Explain ==
    /\ kind = "explain"
    /\ pc = "ready"
    /\ result' = <<explain_score(coll.candidate, coll.track, opts.strict)>>
    /\ pc' = "done"
    /\ UNCHANGED <<kind, coll, opts, idx, success, dirs, files, calls, outcomes, last>>

ScorerNext ==
    \/ Score
    \/ Explain

ScorerSpec == ScorerInit /\ [][ScorerNext]_vars

----------------------------------------------------------------------------
(* Match scorer: properties *)

ScoreReturned == kind = "score" /\ pc = "done"
Logged == ScoreReturned /\ last.logged
Returned == result[1]
Applied == IF opts.strict THEN Q(7, 10) ELSE Q(6, 10)
DurationDiff ==
    Abs(Get(coll.candidate.duration_seconds, PyInt(0)).v - coll.track.duration)

\* C11: on the same candidate, track and strict flag (none of whose
\* sub-scores raises), explain_score reports the total that
\* _calculate_match_score compares (to three decimals), the score is 0
\* exactly when the explained total is below the threshold, and `passed` is
\* true exactly when the score is not 0.
C11_ExplainAgreesWithScore ==
    kind = "explain" /\ pc = "done" =>
        \A s \in {_calculate_match_score(coll.candidate, coll.track, opts.strict)} :
            s.logged =>
                /\ ~Returned.error
                /\ Returned.total_score = Round3(s.total_score)
                /\ (s.v = Zero) <=> Less(Returned.total_score, Returned.threshold)
                /\ Returned.passed <=> (s.v # Zero)

\* C12: score returns the total when the total is at least the threshold
\* applied (0.7 strict, 0.6 otherwise) and 0 otherwise; no returned value lies
\* strictly between 0 and that threshold.
C12_ThresholdDecides ==
    ScoreReturned =>
        /\ last.logged =>
              Returned = IF Leq(Applied, last.total_score) THEN last.total_score ELSE Zero
        /\ ~(Less(Zero, Returned) /\ Less(Returned, Applied))

\* C12 witness: a non-strict call accepted a total that strict mode rejects.
C12_Witness ==
    /\ Logged
    /\ ~opts.strict
    /\ Less(last.total_score, Q(7, 10))
    /\ Returned = last.total_score
    /\ Returned # Zero

\* C13: when the title sub-score is below 0.1, the total compared against the
\* threshold is at most 0.5.
C13_LowTitleCapsTotal ==
    Logged /\ Less(last.title_score, Q(1, 10)) => Leq(last.total_score, Q(1, 2))

\* C13 witness: a candidate with the right duration and artist but an
\* unrelated title was capped at 0.5 and rejected.
C13_Witness ==
    /\ Logged
    /\ Less(last.title_score, Q(1, 10))
    /\ Less(Q(1, 2), Plus(last.duration_score, last.artist_score))
    /\ last.total_score = Q(1, 2)
    /\ Returned = Zero

Malformed ==
    \/ coll.track.artists = <<>>
    \/ coll.candidate.duration_seconds = PyNone
    \/ coll.candidate.artists = PyNone
    \/ coll.candidate.artists = PyList(<< PyDict(Absent) >>)
    \/ coll.candidate.title = PyNone
    \/ coll.candidate.album = PyDict(PyNone) /\ coll.track.album_name # None

\* C17: score never propagates an exception; when a sub-score computation
\* raises (malformed candidate field, empty catalog artist list) it returns 0.
C17_ScoringFaultRejects ==
    kind = "score" =>
        /\ pc # "raised"
        /\ pc = "done" /\ Malformed => Returned = Zero /\ ~last.logged

\* C17 witness: a well-formed candidate scored against a track without
\* artists was rejected with 0.
C17_Witness ==
    /\ ScoreReturned
    /\ coll.track.artists = <<>>
    /\ coll.candidate = [duration_seconds |-> PyInt(180),
                         artists |-> PyList(<< PyDict(PyStr(<<"A">>)) >>),
                         title |-> PyStr(Imagine), album |-> Absent]
    /\ Returned = Zero
    /\ ~last.logged

CandidateNames ==
    {Lower(e.name.v) : e \in Dicts(Get(coll.candidate.artists, PyList(<<>>)).v)}
CatalogNames == {Lower(a) : a \in Range(coll.track.artists)}

\* C23: for a candidate artist list C and a catalog artist list T, compared
\* in lower case, _score_artist_overlap gives 0.3 * |C n T| / max(|T|, 1),
\* plus 0.1 when T's first artist is in C; the value lies in [0, 0.4], and an
\* empty T gives the ratio 0 / 1.
C23_ArtistOverlap ==
    /\ ScoreReturned
    /\ Get(coll.candidate.artists, PyList(<<>>)).tag = "list"
    /\ \A e \in Dicts(Get(coll.candidate.artists, PyList(<<>>)).v) : e.name.tag = "str"
    => \A s \in {_score_artist_overlap(Get(coll.candidate.artists, PyList(<<>>)),
                                       coll.track.artists)} :
          /\ ~s.raised
          /\ s.v = Plus(Q(3 * Cardinality(CandidateNames \cap CatalogNames),
                          10 * (IF CatalogNames = {} THEN 1
                                ELSE Cardinality(CatalogNames))),
                        IF coll.track.artists # <<>>
                           /\ Lower(coll.track.artists[1]) \in CandidateNames
                        THEN Q(1, 10) ELSE Zero)
          /\ Leq(Zero, s.v) /\ Leq(s.v, Q(4, 10))

\* C26 (as stated): the first duration score of the decay regime, right past
\* a difference of 2 seconds, is 0.6.
C26_JumpToSixTenths == Logged /\ DurationDiff = 3 => last.duration_score = Q(6, 10)

\* C26 (amended): the duration score is 1 at a difference of 2 seconds and
\* 0.12 at 3 seconds, the first whole-second difference of the decay regime.
C26_JumpToTwelveHundredths ==
    Logged =>
        /\ DurationDiff = 2 => last.duration_score = Q(1, 1)
        /\ DurationDiff = 3 => last.duration_score = Q(12, 100)

\* C26 witness: a candidate 3 s shorter than the track scored 0.12 for duration.
C26_Witness ==
    /\ Logged
    /\ coll.candidate.duration_seconds = PyInt(177)
    /\ last.duration_score = Q(12, 100)

----------------------------------------------------------------------------
(* _sanitize_filename applied to a name, and once more to its own result.   *)
(* coll holds the argument, result the returned name, idx the number of     *)
(* applications made so far plus one.                                       *)

\* Longest free part of a name; a long name is a run of "a" followed by it.
MaxLen == 3

NameChars == {"a", ".", " ", "\t", "?", "emdash"}

RECURSIVE Strings(_)
Strings(n) ==
    IF n = 0 THEN {<<>>}
    ELSE Strings(n - 1) \cup
         {Append(t, c) : t \in {u \in Strings(n - 1) : Len(u) = n - 1}, c \in NameChars}

Pad(n) == [i \in 1..n |-> "a"]

Names ==
    {Pad(n) \o t : n \in {0} \cup ((SanitizeLimit - MaxLen)..SanitizeLimit),
                   t \in Strings(MaxLen)}

SanitizerInit ==
    /\ kind = "sanitize"
    /\ coll \in Names
    /\ opts = [strict |-> FALSE]
    /\ Idle

Sanitize ==
    /\ kind = "sanitize"
    /\ pc = "ready"
    /\ result' = <<_sanitize_filename(coll)>>
    /\ pc' = "done"
    /\ UNCHANGED <<kind, coll, opts, idx, success, dirs, files, calls, outcomes, last>>

\* the returned name is sanitized again
Resanitize ==
    /\ kind = "sanitize"
    /\ pc = "done"
    /\ idx = 1
    /\ coll' = result[1]
    /\ result' = <<_sanitize_filename(result[1])>>
    /\ idx' = 2
    /\ UNCHANGED <<kind, opts, pc, success, dirs, files, calls, outcomes, last>>

SanitizerNext ==
    \/ Sanitize
    \/ Resanitize

SanitizerSpec == SanitizerInit /\ [][SanitizerNext]_vars

\* C18: sanitizing a sanitized name returns it unchanged.
C18_SanitizeIdempotent ==
    kind = "sanitize" /\ pc = "done" /\ idx = 2 => result[1] = coll

\* C19: a returned name contains no forbidden character and no dash variant,
\* has no two adjacent whitespace characters, neither starts nor ends with a
\* space or a dot, and has at most 200 characters.
C19_SanitizedForm ==
    kind = "sanitize" /\ pc = "done" =>
        /\ \A i \in 1..Len(result[1]) : result[1][i] \notin ForbiddenChars \cup DashChars
        /\ \A i \in 1..(Len(result[1]) - 1) :
              ~(result[1][i] \in WhitespaceChars /\ result[1][i + 1] \in WhitespaceChars)
        /\ result[1] # <<>> =>
              /\ result[1][1] \notin {" ", "."}
              /\ result[1][Len(result[1])] \notin {" ", "."}
        /\ Len(result[1]) <= 200

----------------------------------------------------------------------------
(* _get_output_path called on a track and an optional artist override.      *)
(* coll holds the two arguments, result the returned path.                  *)

PathTracks ==
    [name : {<<"s">>}, artists : {<<>>, << <<"r">> >>, << <<"r", "?">>, <<"q">> >>},
     album_name : {None, <<"b", ":">>},
     release_date : {None, <<"2", "0", "2", "0", "-", "0", "1">>},
     source_type : {"album", "single", "playlist"},
     playlist_name : {None, <<"p">>}, has_lyrics : {FALSE}]

PathInit ==
    /\ kind = "output_path"
    /\ coll \in [track : PathTracks, album_artist : {None, <<"o", ":">>}]
    /\ opts = [strict |-> FALSE]
    /\ Idle

GetOutputPath ==
    /\ kind = "output_path"
    /\ pc = "ready"
    /\ \E mkdir \in {"ok", "raise"} :
          IF mkdir = "raise"
          THEN /\ pc' = "raised"
               /\ UNCHANGED <<dirs, result>>
          ELSE /\ dirs' = dirs \cup Ancestors(OutputDir(coll.track, coll.album_artist))
               /\ result' = <<_get_output_path(coll.track, coll.album_artist, Ext)>>
               /\ pc' = "done"
    /\ UNCHANGED <<kind, coll, opts, idx, success, files, calls, outcomes, last>>

PathNext == GetOutputPath

PathSpec == PathInit /\ [][PathNext]_vars

\* C20: for a track that is not playlist-sourced, the artist directory is the
\* sanitized override when one is supplied, else the sanitized first track
\* artist, else "Unknown Artist"; the album directory is the sanitized album
\* name, or "Unknown Album", followed by the release year, or "Unknown", in
\* parentheses.
C20_ArtistPrecedence ==
    kind = "output_path" /\ pc = "done" /\ coll.track.source_type # "playlist" =>
        /\ result[1][2] =
              IF coll.album_artist # None THEN _sanitize_filename(coll.album_artist)
              ELSE IF coll.track.artists # <<>>
                   THEN _sanitize_filename(coll.track.artists[1])
                   ELSE <<"Unknown Artist">>
        /\ result[1][3] =
              (IF coll.track.album_name # None
               THEN _sanitize_filename(coll.track.album_name)
               ELSE <<"Unknown Album">>)
              \o <<" ", "(">>
              \o (IF coll.track.release_date # None
                  THEN SubSeq(coll.track.release_date, 1, 4) ELSE <<"Unknown">>)
              \o <<")">>

----------------------------------------------------------------------------
(* download_album and download_playlist, the entry points without progress  *)
(* reporting.  download_album returns None, download_playlist its success   *)
(* flag; success is 1 for True and 0 for False.                             *)

LibraryInit ==
    /\ kind \in {"download_album", "download_playlist"}
    /\ coll \in Collections
    /\ opts \in [nfo : BOOLEAN, cover : BOOLEAN, lyrics : BOOLEAN, cb : {FALSE}]
    /\ Idle

\* download_album, lines 408-414: no test of what the loop achieved
download_album_finish(c, nfo, cover, on, oc, d, f) ==
    IF nfo /\ on = "raise"
    THEN Finish(TRUE, f, <<Event("nfo", 0, <<_get_album_dir(c)>>)>>)
    ELSE Finish(FALSE,
                IF cover /\ c.cover_url
                THEN _save_cover_album(f, d, _get_album_dir(c), oc) ELSE f,
                (IF nfo THEN <<Event("nfo", 0, <<_get_album_dir(c)>>)>> ELSE <<>>)
                \o (IF cover /\ c.cover_url
                    THEN <<Event("cover_album", 0, <<_get_album_dir(c)>>)>> ELSE <<>>))

\* download_playlist, lines 535-543: cover, then sidecar, both under `success`
download_playlist_finish(c, n, nfo, cover, on, oc, d, f) ==
    IF ~HasSuccess(n) THEN Finish(FALSE, f, <<>>)
    ELSE Finish(nfo /\ on = "raise",
                IF c.cover_url /\ cover
                THEN _save_cover_album(f, d, Join(base_dir, c.name), oc) ELSE f,
                (IF c.cover_url /\ cover
                 THEN <<Event("cover_album", 0, <<Join(base_dir, c.name)>>)>> ELSE <<>>)
                \o (IF nfo THEN <<Event("nfo", 0, <<Join(base_dir, c.name)>>)>> ELSE <<>>))

\* download_album, before the first iteration of line 395
DownloadAlbumEnter ==
    /\ kind = "download_album" /\ pc = "ready"
    /\ pc' = IF coll.tracks = <<>> THEN "finish" ELSE "loop"
    /\ UNCHANGED <<kind, coll, opts, idx, success, result, dirs, files, calls,
                   outcomes, last>>

\* download_album, one iteration of lines 395-402: nothing catches an
\* exception that leaves download_track
DownloadAlbumTrack ==
    /\ kind = "download_album" /\ pc = "loop"
    /\ \E o \in PlaylistOutcomes(FALSE, opts.lyrics) :
         \E r \in {download_track(TrackOf(coll, "album", idx), coll.artists[1],
                                   opts.lyrics, o, idx, dirs, files)} :
             /\ dirs' = r.dirs
             /\ files' = r.files
             /\ calls' = r.ev
             /\ outcomes' = Append(outcomes, TrackOutcome(r))
             /\ last' = [o |-> NoOutcome, i |-> idx, called |-> TRUE,
                         status |-> r.status, path |-> r.path, track |-> r.track]
             /\ pc' = IF r.status = "raised" THEN "raised"
                      ELSE IF idx = Len(coll.tracks) THEN "finish" ELSE "loop"
    /\ idx' = idx + 1
    /\ UNCHANGED <<kind, coll, opts, success, result>>

\* download_album, lines 404-416
DownloadAlbumFinish ==
    /\ kind = "download_album" /\ pc = "finish"
    /\ \E on \in {"ok", "raise"}, oc \in {"saved", "failed"} :
         \E fin \in {download_album_finish(coll, opts.nfo, opts.cover, on, oc,
                                            dirs, files)} :
             /\ files' = fin.files
             /\ calls' = fin.ev
             /\ pc' = IF fin.raised THEN "raised" ELSE "done"
             /\ result' = IF fin.raised THEN result ELSE <<None>>
    /\ UNCHANGED <<kind, coll, opts, idx, success, dirs, outcomes, last>>

\* download_playlist, lines 507-518
DownloadPlaylistEnter ==
    /\ kind = "download_playlist" /\ pc = "ready"
    /\ IF coll.name = None \/ coll.tracks = <<>>
       THEN /\ pc' = "done" /\ result' = <<FALSE>>
            /\ UNCHANGED <<dirs, calls>>
       ELSE \E om \in {"ok", "raise"} :
            /\ calls' = <<Event("mkdir", 0, <<Join(base_dir, coll.name)>>)>>
            /\ dirs' = IF om = "ok" THEN dirs \cup Ancestors(Join(base_dir, coll.name))
                                    ELSE dirs
            /\ pc' = IF om = "ok" THEN "loop" ELSE "raised"
            /\ result' = result
    /\ UNCHANGED <<kind, coll, opts, idx, success, files, outcomes, last>>

\* download_playlist, one iteration of lines 521-536
DownloadPlaylistTrack ==
    /\ kind = "download_playlist" /\ pc = "loop"
    /\ \E o \in PlaylistOutcomes(FALSE, opts.lyrics) :
         \E it \in {playlist_loop_body(coll, o, idx, dirs, files, FALSE, opts.lyrics)} :
             /\ dirs' = it.dirs
             /\ files' = it.files
             /\ calls' = it.ev
             /\ success' = IF it.counted THEN 1 ELSE success
             /\ outcomes' = Append(outcomes, it.outcome)
             /\ last' = LastOf(o, idx, it)
    /\ idx' = idx + 1
    /\ pc' = IF idx = Len(coll.tracks) THEN "finish" ELSE "loop"
    /\ UNCHANGED <<kind, coll, opts, result>>

\* download_playlist, lines 535-552
DownloadPlaylistFinish ==
    /\ kind = "download_playlist" /\ pc = "finish"
    /\ \E on \in {"ok", "raise"}, oc \in {"saved", "failed"} :
         \E fin \in {download_playlist_finish(coll, success, opts.nfo, opts.cover,
                                               on, oc, dirs, files)} :
             /\ files' = fin.files
             /\ calls' = fin.ev
             /\ pc' = IF fin.raised THEN "raised" ELSE "done"
             /\ result' = IF fin.raised THEN result ELSE <<success = 1>>
    /\ UNCHANGED <<kind, coll, opts, idx, success, dirs, outcomes, last>>

LibraryNext ==
    \/ DownloadAlbumEnter
    \/ DownloadAlbumTrack
    \/ DownloadAlbumFinish
    \/ DownloadPlaylistEnter
    \/ DownloadPlaylistTrack
    \/ DownloadPlaylistFinish

LibrarySpec == LibraryInit /\ [][LibraryNext]_vars

\* C29: an entry point calls the sidecar generator or fetches the collection
\* cover only after at least one track of its batch was downloaded.
C29_SameGuardEverywhere ==
    pc \in {"done", "raised"} /\ (Called("nfo") \/ Called("cover_album")) =>
        CountOutcome("path") > 0

----------------------------------------------------------------------------
(* _score_title_similarity called on a candidate title and a catalog title. *)
(* coll holds the two titles, result the returned score.                    *)

\* Longest candidate title, in pieces.
MaxPieces == 3

VideoTitle == <<"V", "i", "d", "e", "o">>

TitlePieces ==
    {Imagine, VideoTitle, <<"O", "f", "f", "i", "c", "i", "a", "l">>,
     <<"l", "y", "r", "i", "c", "s">>, <<"X">>, <<" ">>, <<"(">>, <<")">>}

RECURSIVE Titles(_)
Titles(n) ==
    IF n = 0 THEN {<<>>}
    ELSE Titles(n - 1) \cup {t \o piece : t \in Titles(n - 1), piece \in TitlePieces}

CatalogTitles == {Imagine, VideoTitle, Imagine \o <<" ">> \o <<"X">>, <<"X">>}

TitleInit ==
    /\ kind = "title"
    /\ coll \in [yt_title : {PyStr(t) : t \in Titles(MaxPieces)} \cup {PyNone},
                 sp_title : CatalogTitles]
    /\ opts = [strict |-> FALSE]
    /\ Idle

ScoreTitle ==
    /\ kind = "title"
    /\ pc = "ready"
    /\ \E r \in {_score_title_similarity(coll.yt_title, coll.sp_title)} :
          /\ pc' = IF r.raised THEN "raised" ELSE "done"
          /\ result' = IF r.raised THEN <<>> ELSE <<r.v>>
    /\ UNCHANGED <<kind, coll, opts, idx, success, dirs, files, calls, outcomes, last>>

TitleNext == ScoreTitle

TitleSpec == TitleInit /\ [][TitleNext]_vars

\* C24: when the candidate title and the catalog title normalize to the same
\* string, the title score is 0.3.
C24_SameNormalizedTitleFullScore ==
    kind = "title" /\ pc = "done"
    /\ _normalize(coll.yt_title.v) = _normalize(coll.sp_title)
    => Returned = Q(3, 10)

====
